---- MODULE Spec2Model ----
(***************************************************************************)
(* VibeFlow Studio backend: the song store, the song API handlers of       *)
(* backend/api/songs.py and the AI gateway of backend/ai.py; and the TDD   *)
(* orchestration scripts that drive coding agents through features.json.   *)
(*                                                                         *)
(* A Python string is a sequence of atoms: an atom is a word, one          *)
(* whitespace character, one decimal digit or a literal of the code.       *)
(* str operations (startswith, split, strip, in, +, int) are computed on   *)
(* these sequences as Python computes them on characters.                  *)
(***************************************************************************)
EXTENDS Integers, Sequences, FiniteSets, TLC

----------------------------------------------------------------------------
(* Bounds of the model *)

\* API requests issued in one run
MaxOps == 2
\* song rows that exist at the same time
MaxSongs == 1
\* texts of TextCatalogue the generation service may answer with
NumTexts == 3
\* longest JSON array the generation service answers a vibe call with
MaxList == 6

----------------------------------------------------------------------------
(* Optional values: None and Some(v) *)

None == [some |-> FALSE]
Some(v) == [some |-> TRUE, val |-> v]

\* Python truthiness of an Optional[List] / Optional[Dict] / Optional[str]
Truthy(o) == o.some /\ o.val # <<>>

----------------------------------------------------------------------------
(* Strings *)

SP == " "
NL == "\n"
Whitespace == {SP, NL}
Digits == <<"0", "1", "2", "3", "4", "5", "6", "7", "8", "9">>

USAGE_PREFIX == <<"__USAGE__:">>
FINAL_MARKER == <<"---", SP, "FINAL", SP, "LYRICS", SP, "---">>

\* s.startswith(p)
StartsWith(s, p) == Len(s) >= Len(p) /\ SubSeq(s, 1, Len(p)) = p

\* s[i:] for a 1-based i
From(s, i) == SubSeq(s, i, Len(s))

\* positions at which m occurs in s
Occurrences(s, m) == {i \in 1..(Len(s) - Len(m) + 1) : SubSeq(s, i, i + Len(m) - 1) = m}

\* m in s
Contains(s, m) == Occurrences(s, m) # {}

Min(S) == CHOOSE i \in S : \A j \in S : i <= j

\* s.split(m)[-1]: split scans left to right over non-overlapping occurrences
RECURSIVE SplitLast(_, _)
SplitLast(s, m) ==
    IF Contains(s, m)
    THEN SplitLast(From(s, Min(Occurrences(s, m)) + Len(m)), m)
    ELSE s

\* s.lstrip(), s.rstrip(), s.strip()
RECURSIVE LStrip(_)
LStrip(s) == IF s # <<>> /\ Head(s) \in Whitespace THEN LStrip(Tail(s)) ELSE s

RECURSIVE RStrip(_)
RStrip(s) ==
    IF s # <<>> /\ s[Len(s)] \in Whitespace THEN RStrip(SubSeq(s, 1, Len(s) - 1)) ELSE s

Strip(s) == RStrip(LStrip(s))

\* s.split(" "): one word per separator plus one, empty words kept
RECURSIVE SplitSpace(_)
SplitSpace(s) ==
    IF Contains(s, <<SP>>)
    THEN LET i == Min(Occurrences(s, <<SP>>))
         IN  <<SubSeq(s, 1, i - 1)>> \o SplitSpace(From(s, i + 1))
    ELSE <<s>>

\* "".join(parts)
RECURSIVE Concat(_)
Concat(parts) == IF parts = <<>> THEN <<>> ELSE Head(parts) \o Concat(Tail(parts))

\* ", ".join(items) for a list of one-atom strings
RECURSIVE JoinComma(_)
JoinComma(items) ==
    IF items = <<>> THEN <<>>
    ELSE IF Len(items) = 1 THEN <<items[1]>>
    ELSE <<items[1], ", ">> \o JoinComma(Tail(items))

IsDigit(a) == \E d \in 1..10 : Digits[d] = a
DigitValue(a) == (CHOOSE d \in 1..10 : Digits[d] = a) - 1

RECURSIVE DecimalValue(_)
DecimalValue(s) ==
    IF s = <<>> THEN 0 ELSE 10 * DecimalValue(SubSeq(s, 1, Len(s) - 1)) + DigitValue(s[Len(s)])

\* int(s) succeeds: surrounding whitespace is ignored, the rest is decimal digits
IntParses(s) == Strip(s) # <<>> /\ \A i \in 1..Len(Strip(s)) : IsDigit(Strip(s)[i])
IntValue(s) == DecimalValue(Strip(s))

\* s.split(":")[1] of a chunk that starts with "__USAGE__:": the text between
\* the first colon and the next one
RECURSIVE UpToColon(_)
UpToColon(s) ==
    IF s = <<>> THEN <<>>
    ELSE IF Head(s) = USAGE_PREFIX[1] THEN <<"__USAGE__">>
    ELSE <<Head(s)>> \o UpToColon(Tail(s))

SplitColon1(chunk) == UpToColon(Tail(chunk))

\* s[:n]
Take(s, n) == SubSeq(s, 1, IF Len(s) < n THEN Len(s) ELSE n)

----------------------------------------------------------------------------
(* The generation service (external): what one generate_content call may do *)

\* texts the service may answer a stage prompt with
TextCatalogue ==
    << <<"la", SP, "di">>,
       <<NL, "oh", SP>>,
       <<"__USAGE__:", "7", SP, "hey">>,
       <<"x", SP>> \o FINAL_MARKER \o <<SP, "y">>,
       <<>>,
       <<"__USAGE__:", "no">>,
       <<"__USAGE__:", "0", SP, "__USAGE__:", "7", "__USAGE__:">> >>

Texts == {TextCatalogue[i] : i \in 1..(IF NumTexts < Len(TextCatalogue) THEN NumTexts ELSE Len(TextCatalogue))}

\* a stage call answers with a text or raises
Raise == [kind |-> "raise"]
Answer(t) == [kind |-> "text", val |-> t]
StageOutcomes(ts) == {Raise} \cup {Answer(t) : t \in ts}

\* a JSON call raises (or answers malformed JSON), answers an empty body, or
\* answers an array of n strings
JsonArray(prefix, n) == [i \in 1..n |-> prefix \o ToString(i)]
JsonEmpty == [kind |-> "empty"]
JsonList(l) == [kind |-> "list", val |-> l]
ListLens == {0, 2, MaxList}
JsonOutcomes(prefix) == {Raise, JsonEmpty} \cup {JsonList(JsonArray(prefix, n)) : n \in ListLens}

----------------------------------------------------------------------------
(* AI gateway: vibe cloud (backend/ai.py AIService) *)

\* candidates kept from the brainstorm answer
CandidateLimit == 10
\* anchors kept from the curation answer
AnchorLimit == 5

Returned(v) == [kind |-> "value", val |-> v]

\* generate_vibe_candidates: every failure, a missing client included, gives []
generate_vibe_candidates(hasClient, r) ==
    IF ~hasClient \/ r.kind # "list" THEN <<>> ELSE Take(r.val, CandidateLimit)

\* the generate_content requests generate_vibe_candidates sends: the lookup
\* of self.client.models fails before anything is sent when client is None
CandidateRequests(hasClient) == IF hasClient THEN 1 ELSE 0

\* the generate_content requests curate_vibe_anchors sends
CurateRequests(hasClient, candidates) ==
    IF candidates = <<>> \/ ~hasClient THEN 0 ELSE 1

\* curate_vibe_anchors giving up with an empty list when the call fails
curate_vibe_anchors_EmptyOnError(hasClient, candidates, r) ==
    IF candidates = <<>> THEN <<>>
    ELSE IF ~hasClient \/ r.kind # "list" THEN <<>>
    ELSE Take(r.val, AnchorLimit)

\* curate_vibe_anchors returning the model's list whole
curate_vibe_anchors_NoLimit(hasClient, candidates, r) ==
    IF candidates = <<>> THEN <<>>
    ELSE IF ~hasClient \/ r.kind # "list" THEN Take(candidates, AnchorLimit)
    ELSE r.val

\* curate_vibe_anchors: no call for an empty list; a failed or empty answer
\* falls back to the first candidates
curate_vibe_anchors(hasClient, candidates, r) ==
    IF candidates = <<>> THEN <<>>
    ELSE IF ~hasClient \/ r.kind # "list" THEN Take(candidates, AnchorLimit)
    ELSE Take(r.val, AnchorLimit)

\* get_vibe_cloud returning the brainstormed candidates
get_vibe_cloud_Uncurated(hasClient, r1, r2) ==
    IF ~hasClient THEN Raise
    ELSE Returned(generate_vibe_candidates(hasClient, r1))

\* get_vibe_cloud: raises without a client, else brainstorm then curate
get_vibe_cloud(hasClient, r1, r2) ==
    IF ~hasClient THEN Raise
    ELSE Returned(curate_vibe_anchors(hasClient, generate_vibe_candidates(hasClient, r1), r2))

\* the calls get_vibe_cloud makes to its two steps, with what they returned
get_vibe_cloud_calls(hasClient, prompt, r1, r2) ==
    IF ~hasClient THEN <<>>
    ELSE LET candidates == generate_vibe_candidates(hasClient, r1)
         IN  << [fn |-> "generate_vibe_candidates", arg |-> [prompt |-> prompt],
                 ret |-> candidates],
                [fn |-> "curate_vibe_anchors",
                 arg |-> [prompt |-> prompt, candidates |-> candidates],
                 ret |-> curate_vibe_anchors(hasClient, candidates, r2)] >>

\* rewrite_text raising without a client
rewrite_text_Raising(hasClient, selection, r) ==
    IF ~hasClient THEN Raise
    ELSE IF r.kind = "raise" THEN Raise
    ELSE Returned(r.val)

\* rewrite_text: the selection itself without a client, else the model's text
rewrite_text(hasClient, selection, r) ==
    IF ~hasClient THEN Returned(selection)
    ELSE IF r.kind = "raise" THEN Raise
    ELSE Returned(r.val)

\* get_stress_patterns: the text itself without a client, else the model's text
get_stress_patterns(hasClient, text, r) ==
    IF ~hasClient THEN Returned(text)
    ELSE IF r.kind = "raise" THEN Raise
    ELSE Returned(r.val)

\* every result get_vibe_cloud can have
VibeOutcomes(hasClient) ==
    {get_vibe_cloud(hasClient, r1, r2) : r1 \in JsonOutcomes("c"), r2 \in JsonOutcomes("k")}

----------------------------------------------------------------------------
(* Song rows (backend/models.py) and request bodies *)

SongIds == 1..MaxSongs

Titles == {<<"Rain">>, <<"Neon">>}
Prompts == {<<"storm">>}
\* the selection of a refine_lyrics request
Selections == {<<"cold", SP, "rain">>}
\* the seed query parameter: absent, blank, or a padded word
SeedParams == {None, Some(<<SP>>), Some(<<SP, "dusk">>)}

\* a vibe cloud longer than the gateway produces, as a client may send it
LongCloud == JsonArray("u", AnchorLimit + 1)

\* Song.model_validate(SongCreate): absent fields take the SongBase defaults
NewSong(body) ==
    [title        |-> body.title,
     vibe_cloud   |-> IF "vibe_cloud" \in DOMAIN body THEN body.vibe_cloud ELSE None,
     content      |-> IF "content" \in DOMAIN body THEN body.content ELSE None,
     total_tokens |-> IF "total_tokens" \in DOMAIN body THEN body.total_tokens ELSE 0]

CreateBodies ==
    {[title |-> t] : t \in Titles}
    \cup {[title |-> <<"Rain">>, vibe_cloud |-> Some(LongCloud)],
          [title |-> <<"Rain">>, total_tokens |-> 9]}

\* SongUpdate bodies: model_dump(exclude_unset=True) keeps the fields sent,
\* each with the value sent or with null (every field of SongUpdate is Optional)
UpdateBodies ==
    {[title |-> Some(<<"Neon">>)],
     [vibe_cloud |-> Some(LongCloud)],
     [vibe_cloud |-> None],
     [content |-> Some([note |-> <<"memo">>])],
     [total_tokens |-> Some(0)],
     [title |-> Some(<<"Neon">>), total_tokens |-> Some(9)],
     [title |-> None]}

\* columns of Song that are declared without Optional: NOT NULL in the table
NotNullColumns == {"title", "total_tokens"}

\* the UPDATE of the commit passes the table's NOT NULL constraints
IntegrityOk(body) == \A f \in DOMAIN body \cap NotNullColumns : body[f].some

\* for key, value in song_data.items(): setattr(db_song, key, value)
ApplyUpdate(row, body) ==
    [f \in DOMAIN row |->
        IF f \in DOMAIN body
        THEN IF f \in NotNullColumns THEN body[f].val ELSE body[f]
        ELSE row[f]]

\* song.content = song.content or {}; song.content[key] = value
ContentDict(row) == IF Truthy(row.content) THEN row.content.val ELSE <<>>
SetKey(d, key, value) == (key :> value) @@ d

\* VibeRow starting the content afresh
VibeRow_FreshContent(row, anchors, prompt) ==
    [row EXCEPT !.vibe_cloud = Some(anchors),
                !.content = Some(SetKey(<<>>, "seed_prompt", prompt))]

\* the row generate_vibe commits for the anchors the gateway returned
VibeRow(row, anchors, prompt) ==
    [row EXCEPT !.vibe_cloud = Some(anchors),
                !.content = Some(SetKey(ContentDict(row), "seed_prompt", prompt))]

----------------------------------------------------------------------------
(* State *)

VARIABLES
    store,      \* the song table: id -> None or Some(row), committed rows only
    client,     \* ai_service.client is set (GEMINI_API_KEY configured)
    texts,      \* the texts the generation service answers stage prompts with
    ops,        \* requests issued so far
    last,       \* the request or generator step that acted last, and its status
    req,        \* frame of stream_lyrics and of its generator()
    pipe,       \* frame of the lyrics_factory_stream generator
    delivered,  \* fragments the streaming response has delivered to the client
    yielded,    \* fragments lyrics_factory_stream has yielded
    calls,      \* gateway calls made for the current stream, in order, with results
    sess,       \* frame of the get_session generator of the current request
    gw,         \* the gateway method called last: arguments, calls it made, result
    features,   \* features.json: None, or Some(the list under "features")
    runner,     \* frame of the orchestration script that is running
    repo        \* the git repository and progress.txt of the project

\* the state of the song backend, and the state of a TDD project
songVars == <<store, client, texts, ops, last, req, pipe, delivered, yielded, calls, sess, gw>>
projVars == <<features, runner, repo>>

vars == <<songVars, projVars>>

Style == <<"Modern">>
RhymeScheme == <<"Free Verse">>

NoRow == [title |-> <<>>, vibe_cloud |-> None, content |-> None, total_tokens |-> 0]

IdleReq ==
    [pc |-> "idle", song_id |-> 0, song |-> NoRow, dirty |-> {}, seed_text |-> <<>>,
     anchors |-> None, full_output |-> <<>>, final_tokens |-> 0]

IdlePipe ==
    [pc |-> "none", title |-> <<>>, seed |-> <<>>, anchors |-> None,
     outline |-> <<>>, raw_draft |-> <<>>, refined |-> <<>>, polished_rhythm |-> <<>>,
     final_lyrics |-> <<>>, words |-> <<>>, wi |-> 0]

Exists(id) == store[id].some
Row(id) == store[id].val

\* GET /songs/{id}: the committed row, or 404
read_song(id) == IF Exists(id) THEN [status |-> 200, body |-> Row(id)] ELSE [status |-> 404]

Max(S) == CHOOSE i \in S : \A j \in S : i >= j

\* the id an insert gets: one more than the largest id in the table
NextId == IF \E i \in SongIds : Exists(i) THEN Max({i \in SongIds : Exists(i)}) + 1 ELSE 1

\* session.commit() of a loaded object: the UPDATE writes the attributes that
\* were assigned, and fails when the row is gone
CommitOk(id) == Exists(id)

\* Commit writing nothing
Commit_Skipped(id, obj, dirty) == store

Commit(id, obj, dirty) ==
    [store EXCEPT ![id] = Some([f \in DOMAIN obj |-> IF f \in dirty THEN obj[f] ELSE @.val[f]])]

Done(op, id, status) == last' = [op |-> op, id |-> id, status |-> status]

StreamIdle == req.pc \in {"idle", "done", "aborted"}

\* retries = 3
Retries == 3

LockError == "database is locked"
\* what the database may answer the handler's statements with
DbFaults == {"none", LockError, "disk I/O error"}

\* get_session not yet called
SessIdle ==
    [pc |-> "idle", retries |-> 0, opened |-> 0, slept |-> 0, runs |-> 0,
     exc |-> "none", outcome |-> "pending"]

\* no gateway method called yet
GwIdle ==
    [op |-> "none", arg |-> <<>>, answers |-> <<>>, calls |-> <<>>, requests |-> 0,
     ret |-> [kind |-> "none"]]

\* no orchestration script started yet
RunnerIdle ==
    [pc |-> "idle", iteration |-> 0, feature |-> 0, success |-> FALSE,
     attempts |-> <<>>, commits |-> <<>>, outcome |-> "none",
     result |-> <<>>, errors |-> {},
     args |-> [feature_id |-> "", skip_tests |-> FALSE, dry_run |-> FALSE,
               tests_ok |-> FALSE, staged |-> FALSE, commit_ok |-> FALSE]]

\* a repository without commits of the committer, progress.txt without entries
EmptyRepo == [commits |-> <<>>, progress |-> Some(<<>>)]

\* candidate lists handed to curate_vibe_anchors
CandidateLists == {JsonArray("c", n) : n \in ListLens}

\* the routers main.py includes in the application
IncludedRouters == {"songs", "utils"}

\* a text with a word that reads as a usage marker
ApiTexts == {TextCatalogue[3]}

\* rows the database file may hold at startup: created songs, a song after
\* generate_vibe, a song after an update of its content
StartRows ==
    {NewSong(b) : b \in CreateBodies}
    \cup {VibeRow(NewSong([title |-> <<"Rain">>]), JsonArray("c", 2), <<"storm">>),
          ApplyUpdate(NewSong([title |-> <<"Rain">>]), [content |-> Some([note |-> <<"memo">>])])}

\* a new song, and a song after generate_vibe
ApiRows ==
    {NewSong([title |-> <<"Rain">>]),
     VibeRow(NewSong([title |-> <<"Rain">>]), JsonArray("c", 2), <<"storm">>)}

StartStores(rows) ==
    {st \in [SongIds -> {None} \cup {Some(r) : r \in rows}] :
        \A i \in SongIds : st[i].some => \A j \in 1..i : st[j].some}

Init ==
    /\ store \in StartStores(ApiRows)
    /\ client \in BOOLEAN
    /\ texts = ApiTexts
    /\ ops = 0
    /\ last = [op |-> "init", id |-> 0, status |-> 0]
    /\ req = IdleReq
    /\ pipe = IdlePipe
    /\ delivered = <<>>
    /\ yielded = <<>>
    /\ calls = <<>>
    /\ sess = SessIdle
    /\ gw = GwIdle
    /\ features = None
    /\ runner = RunnerIdle
    /\ repo = EmptyRepo

----------------------------------------------------------------------------
(* CRUD handlers (backend/api/songs.py) *)

\* POST /songs/
create_song ==
    /\ ops < MaxOps
    /\ NextId \in SongIds
    /\ \E body \in CreateBodies :
         store' = [store EXCEPT ![NextId] = Some(NewSong(body))]
    /\ ops' = ops + 1
    /\ Done("create", NextId, 200)
    /\ UNCHANGED <<client, texts, sess, gw, req, pipe, delivered, yielded, calls, projVars>>

\* the status of PUT /songs/{song_id}: 404, or 500 when the commit raises
UpdateStatus(id, body) ==
    IF ~Exists(id) THEN 404 ELSE IF ~IntegrityOk(body) THEN 500 ELSE 200

\* the table after PUT /songs/{song_id}
UpdatedStore(id, body) ==
    IF Exists(id) /\ IntegrityOk(body)
    THEN Commit(id, ApplyUpdate(Row(id), body), DOMAIN body)
    ELSE store

\* PUT /songs/{song_id}
update_song ==
    /\ ops < MaxOps
    /\ \E id \in SongIds, body \in UpdateBodies :
         /\ store' = UpdatedStore(id, body)
         /\ Done("update", id, UpdateStatus(id, body))
    /\ ops' = ops + 1
    /\ UNCHANGED <<client, texts, sess, gw, req, pipe, delivered, yielded, calls, projVars>>

\* DELETE /songs/{song_id}
delete_song ==
    /\ ops < MaxOps
    /\ \E id \in SongIds :
         IF Exists(id)
         THEN /\ store' = [store EXCEPT ![id] = None]
              /\ Done("delete", id, 200)
         ELSE /\ store' = store
              /\ Done("delete", id, 404)
    /\ ops' = ops + 1
    /\ UNCHANGED <<client, texts, sess, gw, req, pipe, delivered, yielded, calls, projVars>>

\* GET /songs/{song_id}
read_song_handler ==
    /\ ops < MaxOps
    /\ \E id \in SongIds : Done("read", id, read_song(id).status)
    /\ ops' = ops + 1
    /\ UNCHANGED <<store, client, texts, sess, gw, req, pipe, delivered, yielded, calls, projVars>>

\* POST /songs/{song_id}/refine_lyrics
refine_lyrics ==
    /\ ops < MaxOps
    /\ \E id \in SongIds, selection \in Selections, r \in StageOutcomes(texts) :
         IF ~Exists(id)
         THEN Done("refine_lyrics", id, 404)
         ELSE IF rewrite_text(client, selection, r).kind = "raise"
         THEN Done("refine_lyrics", id, 500)
         ELSE Done("refine_lyrics", id, 200)
    /\ ops' = ops + 1
    /\ UNCHANGED <<store, client, texts, sess, gw, req, pipe, delivered, yielded, calls, projVars>>

\* generate_vibe creating the row it did not find
generate_vibe_Upsert ==
    /\ ops < MaxOps
    /\ \E id \in SongIds, prompt \in Prompts, r \in VibeOutcomes(client) :
         IF r.kind = "raise"
         THEN /\ store' = store
              /\ Done("generate_vibe", id, 500)
         ELSE IF ~Exists(id)
         THEN /\ store' = [store EXCEPT ![id] = Some(VibeRow(NoRow, r.val, prompt))]
              /\ Done("generate_vibe", id, 404)
         ELSE /\ store' = Commit(id, VibeRow(Row(id), r.val, prompt), {"vibe_cloud", "content"})
              /\ Done("generate_vibe", id, 200)
    /\ ops' = ops + 1
    /\ UNCHANGED <<client, texts, sess, gw, req, pipe, delivered, yielded, calls, projVars>>

\* POST /songs/{song_id}/generate_vibe
generate_vibe ==
    /\ ops < MaxOps
    /\ \E id \in SongIds, prompt \in Prompts, r \in VibeOutcomes(client) :
         IF ~Exists(id)
         THEN /\ store' = store
              /\ Done("generate_vibe", id, 404)
         ELSE IF r.kind = "raise"
         THEN /\ store' = store
              /\ Done("generate_vibe", id, 500)
         ELSE /\ store' = Commit(id, VibeRow(Row(id), r.val, prompt), {"vibe_cloud", "content"})
              /\ Done("generate_vibe", id, 200)
    /\ ops' = ops + 1
    /\ UNCHANGED <<client, texts, sess, gw, req, pipe, delivered, yielded, calls, projVars>>

----------------------------------------------------------------------------
(* lyrics_factory_stream fragments (backend/ai.py) *)

ErrorMsg == <<"Error: No API Key">>
ScoutMsg == <<"[Sensory Scout] Expanding vibes...", NL>>
UsingMsg == <<"Using selected vibes...", NL>>
AnchorsMsg(anchors) == <<"Anchors: ">> \o JoinComma(anchors) \o <<NL, NL>>
ArchitectMsg == <<"[Architect] Designing structure...", NL>>
DrafterMsg == <<"[Drafter] Drafting lyrics...", NL>>
EditorMsg == <<"[Editor] Removing cliches...", NL>>
RhythmistMsg == <<"[Rhythmist] Polishing flow...", NL>>
SonicMsg == <<"[Sonic Sculptor] Enhancing phonetics...", NL>>
FinalHeader == <<NL>> \o FINAL_MARKER \o <<NL, NL>>
UsageChunk == <<NL, NL>> \o USAGE_PREFIX \o <<"1", "5", "0", "0">>

----------------------------------------------------------------------------
(* stream_lyrics and its generator (backend/api/songs.py) *)

\* ResolveSeed falling back to the title before the stored seed prompt
ResolveSeed_TitleFirst(seed, row) ==
    LET given == Strip(IF Truthy(seed) THEN seed.val ELSE <<>>)
        d == ContentDict(row)
    IN  IF given # <<>> THEN given
        ELSE IF row.title # <<>> THEN row.title
        ELSE IF "seed_prompt" \in DOMAIN d THEN d["seed_prompt"]
        ELSE <<>>

\* seed_text = (seed or "").strip(), else the stored seed prompt, else the title
ResolveSeed(seed, row) ==
    LET given == Strip(IF Truthy(seed) THEN seed.val ELSE <<>>)
        d == ContentDict(row)
    IN  IF given # <<>> THEN given
        ELSE IF "seed_prompt" \in DOMAIN d /\ d["seed_prompt"] # <<>> THEN d["seed_prompt"]
        ELSE row.title

\* chunk.startswith("__USAGE__:")
IsUsage(chunk) == StartsWith(chunk, USAGE_PREFIX)

\* final_tokens = int(chunk.split(":")[1]), left alone when int() raises
ParseUsage(chunk, final_tokens) ==
    IF IntParses(SplitColon1(chunk)) THEN IntValue(SplitColon1(chunk)) ELSE final_tokens

\* the loop body: a usage chunk is parsed and skipped, any other is buffered
HandleChunk(r, chunk) ==
    IF IsUsage(chunk)
    THEN [r EXCEPT !.final_tokens = ParseUsage(chunk, @)]
    ELSE [r EXCEPT !.full_output = @ \o chunk]

\* the lyrics kept from the buffered output
FinalLyrics(full_output) ==
    IF Contains(full_output, FINAL_MARKER)
    THEN Strip(SplitLast(full_output, FINAL_MARKER))
    ELSE full_output

\* FinishedSong storing the whole buffered output as the lyrics
FinishedSong_RawOutput(r) ==
    LET d == SetKey(SetKey(ContentDict(r.song), "seed_prompt", r.seed_text),
                    "lyrics", r.full_output)
    IN  [r.song EXCEPT !.content = Some(d),
                       !.total_tokens = IF r.final_tokens > 0 THEN @ + r.final_tokens ELSE @]

\* FinishedSong storing the reported usage in place of adding it
FinishedSong_ReplaceTokens(r) ==
    LET d == SetKey(SetKey(ContentDict(r.song), "seed_prompt", r.seed_text),
                    "lyrics", FinalLyrics(r.full_output))
    IN  [r.song EXCEPT !.content = Some(d),
                       !.total_tokens = IF r.final_tokens > 0 THEN r.final_tokens ELSE @]

\* the in-memory song after the "Update DB" block
FinishedSong(r) ==
    LET d == SetKey(SetKey(ContentDict(r.song), "seed_prompt", r.seed_text),
                    "lyrics", FinalLyrics(r.full_output))
    IN  [r.song EXCEPT !.content = Some(d),
                       !.total_tokens = IF r.final_tokens > 0 THEN @ + r.final_tokens ELSE @]

\* FinishedDirty forgetting the attributes assigned before the loop
FinishedDirty_ContentOnly(r) ==
    {"content"} \cup (IF r.final_tokens > 0 THEN {"total_tokens"} ELSE {})

FinishedDirty(r) ==
    r.dirty \cup {"content"} \cup (IF r.final_tokens > 0 THEN {"total_tokens"} ELSE {})

\* one fragment leaves lyrics_factory_stream and passes through the loop body
Yield(chunk) ==
    /\ yielded' = Append(yielded, chunk)
    /\ delivered' = IF IsUsage(chunk) THEN delivered ELSE Append(delivered, chunk)
    /\ req' = HandleChunk(req, chunk)

\* Abort with the exception swallowed: the response goes on
Abort_Swallowed ==
    /\ req' = req
    /\ UNCHANGED <<delivered, yielded>>

\* an exception leaves the generator: the response breaks off, nothing commits
Abort ==
    /\ req' = [req EXCEPT !.pc = "aborted"]
    /\ UNCHANGED <<delivered, yielded>>

\* GET /songs/{song_id}/write_lyrics/stream: the handler body
stream_lyrics ==
    /\ ops < MaxOps
    /\ StreamIdle
    /\ \E id \in SongIds, seed \in SeedParams :
         IF ~Exists(id)
         THEN /\ Done("stream", id, 404)
              /\ UNCHANGED <<req, pipe, delivered, yielded, calls>>
         ELSE /\ req' = [IdleReq EXCEPT !.pc = "ready", !.song_id = id, !.song = Row(id),
                                         !.seed_text = ResolveSeed(seed, Row(id))]
              /\ pipe' = IdlePipe
              /\ delivered' = <<>>
              /\ yielded' = <<>>
              /\ calls' = <<>>
              /\ last' = [op |-> "stream", id |-> id, status |-> 200, seed |-> seed]
    /\ ops' = ops + 1
    /\ UNCHANGED <<store, client, texts, sess, gw, projVars>>

\* generator_start passing the anchors on without assigning song.vibe_cloud
generator_start_NoAssign ==
    /\ req.pc = "ready"
    /\ IF Truthy(req.song.vibe_cloud)
       THEN /\ req' = [req EXCEPT !.pc = "running", !.anchors = req.song.vibe_cloud]
            /\ pipe' = [IdlePipe EXCEPT !.pc = "new", !.title = req.song.title,
                                         !.seed = req.seed_text, !.anchors = req.song.vibe_cloud]
            /\ calls' = calls
       ELSE \E r \in VibeOutcomes(client) :
            /\ calls' = Append(calls, [fn |-> "get_vibe_cloud", arg |-> [prompt |-> req.seed_text],
                                       ret |-> r])
            /\ IF r.kind = "raise"
               THEN /\ req' = [req EXCEPT !.pc = "aborted"]
                    /\ pipe' = pipe
               ELSE /\ req' = [req EXCEPT !.pc = "running", !.anchors = Some(r.val)]
                    /\ pipe' = [IdlePipe EXCEPT !.pc = "new", !.title = req.song.title,
                                                 !.seed = req.seed_text, !.anchors = Some(r.val)]
    /\ Done("stream_next", req.song_id, 200)
    /\ UNCHANGED <<store, client, texts, sess, gw, ops, delivered, yielded, projVars>>

\* generator(): up to the call that creates the pipeline generator
generator_start ==
    /\ req.pc = "ready"
    /\ IF Truthy(req.song.vibe_cloud)
       THEN /\ req' = [req EXCEPT !.pc = "running", !.anchors = req.song.vibe_cloud]
            /\ pipe' = [IdlePipe EXCEPT !.pc = "new", !.title = req.song.title,
                                         !.seed = req.seed_text, !.anchors = req.song.vibe_cloud]
            /\ calls' = calls
       ELSE \E r \in VibeOutcomes(client) :
            /\ calls' = Append(calls, [fn |-> "get_vibe_cloud", arg |-> [prompt |-> req.seed_text],
                                       ret |-> r])
            /\ IF r.kind = "raise"
               THEN /\ req' = [req EXCEPT !.pc = "aborted"]
                    /\ pipe' = pipe
               ELSE /\ req' = [req EXCEPT !.pc = "running", !.anchors = Some(r.val),
                                           !.song.vibe_cloud = Some(r.val),
                                           !.dirty = @ \cup {"vibe_cloud"}]
                    /\ pipe' = [IdlePipe EXCEPT !.pc = "new", !.title = req.song.title,
                                                 !.seed = req.seed_text, !.anchors = Some(r.val)]
    /\ Done("stream_next", req.song_id, 200)
    /\ UNCHANGED <<store, client, texts, sess, gw, ops, delivered, yielded, projVars>>

----------------------------------------------------------------------------
(* lyrics_factory_stream, one action per resumption of the generator *)

Running(at) == req.pc = "running" /\ pipe.pc \in at

StepDone == Done("stream_next", req.song_id, 200)

\* pipeline_begin without the check of self.client
pipeline_begin_NoClientCheck ==
    /\ Running({"new"})
    /\ IF ~Truthy(pipe.anchors)
       THEN /\ pipe' = [pipe EXCEPT !.pc = "y_scout"]
            /\ Yield(ScoutMsg)
       ELSE /\ pipe' = [pipe EXCEPT !.pc = "y_using"]
            /\ Yield(UsingMsg)
    /\ StepDone
    /\ UNCHANGED <<store, client, texts, sess, gw, ops, calls, projVars>>

\* first resumption: the client check and the first progress marker
pipeline_begin ==
    /\ Running({"new"})
    /\ IF ~client
       THEN /\ pipe' = [pipe EXCEPT !.pc = "y_error"]
            /\ Yield(ErrorMsg)
       ELSE IF ~Truthy(pipe.anchors)
       THEN /\ pipe' = [pipe EXCEPT !.pc = "y_scout"]
            /\ Yield(ScoutMsg)
       ELSE /\ pipe' = [pipe EXCEPT !.pc = "y_using"]
            /\ Yield(UsingMsg)
    /\ StepDone
    /\ UNCHANGED <<store, client, texts, sess, gw, ops, calls, projVars>>

\* the anchors line, after get_vibe_cloud(seed) when no anchors were passed
pipeline_anchors ==
    /\ Running({"y_scout", "y_using"})
    /\ IF pipe.pc = "y_using"
       THEN /\ pipe' = [pipe EXCEPT !.pc = "y_anchors"]
            /\ Yield(AnchorsMsg(pipe.anchors.val))
            /\ calls' = calls
       ELSE \E r \in VibeOutcomes(client) :
            /\ calls' = Append(calls, [fn |-> "get_vibe_cloud", arg |-> [prompt |-> pipe.seed],
                                       ret |-> r])
            /\ IF r.kind = "raise"
               THEN /\ pipe' = [pipe EXCEPT !.pc = "raised"]
                    /\ Abort
               ELSE /\ pipe' = [pipe EXCEPT !.pc = "y_anchors", !.anchors = Some(r.val)]
                    /\ Yield(AnchorsMsg(r.val))
    /\ StepDone
    /\ UNCHANGED <<store, client, texts, sess, gw, ops, projVars>>

\* the Architect progress marker
pipeline_architect_marker ==
    /\ Running({"y_anchors"})
    /\ pipe' = [pipe EXCEPT !.pc = "y_arch"]
    /\ Yield(ArchitectMsg)
    /\ StepDone
    /\ UNCHANGED <<store, client, texts, sess, gw, ops, calls, projVars>>

\* one stage: the call with its argument, then the next progress marker
Stage(from, to, fn, arg, local, marker) ==
    /\ Running({from})
    /\ \E r \in StageOutcomes(texts) :
         /\ calls' = Append(calls, [fn |-> fn, arg |-> arg, ret |-> r])
         /\ IF r.kind = "raise"
            THEN /\ pipe' = [pipe EXCEPT !.pc = "raised"]
                 /\ Abort
            ELSE /\ pipe' = [pipe EXCEPT !.pc = to, ![local] = r.val]
                 /\ Yield(marker)
    /\ StepDone
    /\ UNCHANGED <<store, client, texts, sess, gw, ops, projVars>>

architect_outline ==
    Stage("y_arch", "y_draft", "architect_outline",
          [title |-> pipe.title, anchors |-> pipe.anchors.val],
          "outline", DrafterMsg)

drafter_write ==
    Stage("y_draft", "y_edit", "drafter_write",
          [title |-> pipe.title, anchors |-> pipe.anchors.val, outline |-> pipe.outline,
           style |-> Style, rhyme_scheme |-> RhymeScheme],
          "raw_draft", EditorMsg)

\* editor_refine fed the outline in place of the draft
editor_refine_FromOutline ==
    Stage("y_edit", "y_rhythm", "editor_refine", [lyrics |-> pipe.outline],
          "refined", RhythmistMsg)

editor_refine ==
    Stage("y_edit", "y_rhythm", "editor_refine", [lyrics |-> pipe.raw_draft],
          "refined", RhythmistMsg)

rhythmist_polish ==
    Stage("y_rhythm", "y_sonic", "rhythmist_polish", [lyrics |-> pipe.refined],
          "polished_rhythm", SonicMsg)

sonic_polish ==
    Stage("y_sonic", "y_final", "sonic_polish", [lyrics |-> pipe.polished_rhythm],
          "final_lyrics", FinalHeader)

\* for word in final_lyrics.split(" "): yield word + " "
pipeline_word ==
    /\ \/ /\ Running({"y_final"})
          /\ pipe' = [pipe EXCEPT !.pc = "y_word", !.words = SplitSpace(pipe.final_lyrics),
                                  !.wi = 1]
          /\ Yield(SplitSpace(pipe.final_lyrics)[1] \o <<SP>>)
       \/ /\ Running({"y_word"})
          /\ pipe.wi < Len(pipe.words)
          /\ pipe' = [pipe EXCEPT !.wi = @ + 1]
          /\ Yield(pipe.words[pipe.wi + 1] \o <<SP>>)
    /\ StepDone
    /\ UNCHANGED <<store, client, texts, sess, gw, ops, calls, projVars>>

\* the trailing usage marker
pipeline_usage ==
    /\ Running({"y_word"})
    /\ pipe.wi = Len(pipe.words)
    /\ pipe' = [pipe EXCEPT !.pc = "y_usage"]
    /\ Yield(UsageChunk)
    /\ StepDone
    /\ UNCHANGED <<store, client, texts, sess, gw, ops, calls, projVars>>

\* the pipeline returns; generator() updates the song and commits
generator_finish ==
    /\ Running({"y_usage", "y_error"})
    /\ pipe' = [pipe EXCEPT !.pc = "done"]
    /\ IF CommitOk(req.song_id)
       THEN /\ store' = Commit(req.song_id, FinishedSong(req), FinishedDirty(req))
            /\ req' = [req EXCEPT !.pc = "done", !.song = FinishedSong(req),
                                   !.dirty = FinishedDirty(req)]
       ELSE /\ store' = store
            /\ req' = [req EXCEPT !.pc = "aborted", !.song = FinishedSong(req),
                                   !.dirty = FinishedDirty(req)]
    /\ StepDone
    /\ UNCHANGED <<client, texts, sess, gw, ops, delivered, yielded, calls, projVars>>

\* client_disconnect saving what was buffered so far
client_disconnect_Saving ==
    /\ req.pc = "running"
    /\ yielded # <<>>
    /\ ~IsUsage(yielded[Len(yielded)])
    /\ store' = IF CommitOk(req.song_id)
                THEN Commit(req.song_id, FinishedSong(req), FinishedDirty(req))
                ELSE store
    /\ req' = [req EXCEPT !.pc = "aborted"]
    /\ pipe' = [pipe EXCEPT !.pc = "closed"]
    /\ Done("disconnect", req.song_id, 0)
    /\ UNCHANGED <<client, texts, sess, gw, ops, delivered, yielded, calls, projVars>>

\* the client goes away while generator() is suspended at its yield
client_disconnect ==
    /\ req.pc = "running"
    /\ yielded # <<>>
    /\ ~IsUsage(yielded[Len(yielded)])
    /\ req' = [req EXCEPT !.pc = "aborted"]
    /\ pipe' = [pipe EXCEPT !.pc = "closed"]
    /\ Done("disconnect", req.song_id, 0)
    /\ UNCHANGED <<store, client, texts, sess, gw, ops, delivered, yielded, calls, projVars>>

----------------------------------------------------------------------------
(* get_session (backend/database.py), driven as a generator dependency: the
   framework calls next() for the session, runs the handler, and then resumes
   the generator, with next() after a return and with throw() after a raise *)

\* first next(): retries = 3, the loop opens a Session and yields it
get_session_enter ==
    /\ ops < MaxOps
    /\ sess.pc = "idle"
    /\ sess' = [SessIdle EXCEPT !.pc = "yielded", !.retries = Retries, !.opened = 1]
    /\ ops' = ops + 1
    /\ Done("get_session", 0, 0)
    /\ UNCHANGED <<store, client, texts, req, pipe, delivered, yielded, calls, gw, projVars>>

\* the handler of PUT /songs/{song_id} runs with the yielded session; its
\* statements may be answered with a database error
update_song_in_session ==
    /\ sess.pc = "yielded"
    /\ \E id \in SongIds, body \in UpdateBodies, fault \in DbFaults :
         IF ~Exists(id)
         THEN /\ store' = store
              /\ sess' = [sess EXCEPT !.pc = "thrown", !.runs = @ + 1, !.exc = "HTTPException"]
              /\ Done("update", id, 404)
         ELSE IF fault # "none"
         THEN /\ store' = store
              /\ sess' = [sess EXCEPT !.pc = "thrown", !.runs = @ + 1, !.exc = fault]
              /\ Done("update", id, 500)
         ELSE IF ~IntegrityOk(body)
         THEN /\ store' = store
              /\ sess' = [sess EXCEPT !.pc = "thrown", !.runs = @ + 1, !.exc = "IntegrityError"]
              /\ Done("update", id, 500)
         ELSE /\ store' = UpdatedStore(id, body)
              /\ sess' = [sess EXCEPT !.pc = "returned", !.runs = @ + 1]
              /\ Done("update", id, 200)
    /\ UNCHANGED <<client, texts, ops, req, pipe, delivered, yielded, calls, gw, projVars>>

\* next() after the handler returned: break, the with block closes the session
get_session_exit ==
    /\ sess.pc = "returned"
    /\ sess' = [sess EXCEPT !.pc = "finished", !.outcome = "ok"]
    /\ UNCHANGED <<store, client, texts, ops, last, req, pipe, delivered, yielded, calls, gw, projVars>>

\* throw() after the handler raised: the except clause either re-raises, or
\* counts down, sleeps and goes round the loop to a second yield
get_session_except ==
    /\ sess.pc = "thrown"
    /\ IF sess.exc = LockError /\ sess.retries > 1
       THEN sess' = [sess EXCEPT !.pc = "reyielded", !.retries = @ - 1, !.slept = @ + 1,
                                 !.opened = @ + 1]
       ELSE sess' = [sess EXCEPT !.pc = "finished", !.outcome = sess.exc]
    /\ UNCHANGED <<store, client, texts, ops, last, req, pipe, delivered, yielded, calls, gw, projVars>>

\* a generator that yields in answer to throw(): the context manager raises
\* RuntimeError("generator didn't stop after throw()") and closes it; the
\* handler is not run again
get_session_second_yield ==
    /\ sess.pc = "reyielded"
    /\ sess' = [sess EXCEPT !.pc = "finished", !.outcome = "RuntimeError"]
    /\ UNCHANGED <<store, client, texts, ops, last, req, pipe, delivered, yielded, calls, gw, projVars>>

\* one request through get_session
InitSession ==
    /\ store \in StartStores(StartRows)
    /\ client \in BOOLEAN
    /\ texts = ApiTexts
    /\ ops = MaxOps - 1
    /\ last = [op |-> "init", id |-> 0, status |-> 0]
    /\ req = IdleReq
    /\ pipe = IdlePipe
    /\ delivered = <<>>
    /\ yielded = <<>>
    /\ calls = <<>>
    /\ sess = SessIdle
    /\ gw = GwIdle
    /\ features = None
    /\ runner = RunnerIdle
    /\ repo = EmptyRepo

NextSession ==
    \/ get_session_enter
    \/ update_song_in_session
    \/ get_session_exit
    \/ get_session_except
    \/ get_session_second_yield

SpecSession == InitSession /\ [][NextSession]_vars

----------------------------------------------------------------------------
(* Calls of the AI gateway on its own (backend/ai.py), and the /ai router *)

GatewayCall(op, arg, answers, subcalls, requests, ret) ==
    /\ ops < MaxOps
    /\ gw' = [op |-> op, arg |-> arg, answers |-> answers, calls |-> subcalls,
              requests |-> requests, ret |-> ret]
    /\ ops' = ops + 1
    /\ Done(op, 0, 0)
    /\ UNCHANGED <<store, client, texts, sess, req, pipe, delivered, yielded, calls, projVars>>

call_generate_vibe_candidates ==
    \E prompt \in Prompts, r \in JsonOutcomes("c") :
        GatewayCall("generate_vibe_candidates", [prompt |-> prompt], <<r>>, <<>>,
                    CandidateRequests(client),
                    Returned(generate_vibe_candidates(client, r)))

call_curate_vibe_anchors ==
    \E prompt \in Prompts, candidates \in CandidateLists, r \in JsonOutcomes("k") :
        GatewayCall("curate_vibe_anchors", [prompt |-> prompt, candidates |-> candidates],
                    <<r>>, <<>>, CurateRequests(client, candidates),
                    Returned(curate_vibe_anchors(client, candidates, r)))

call_get_vibe_cloud ==
    \E prompt \in Prompts, r1 \in JsonOutcomes("c"), r2 \in JsonOutcomes("k") :
        GatewayCall("get_vibe_cloud", [prompt |-> prompt], <<r1, r2>>,
                    get_vibe_cloud_calls(client, prompt, r1, r2),
                    IF ~client THEN 0
                    ELSE 1 + CurateRequests(client, generate_vibe_candidates(client, r1)),
                    get_vibe_cloud(client, r1, r2))

call_rewrite_text ==
    \E selection \in Selections, r \in StageOutcomes(texts) :
        GatewayCall("rewrite_text", [selection |-> selection], <<r>>, <<>>,
                    IF client THEN 1 ELSE 0, rewrite_text(client, selection, r))

call_get_stress_patterns ==
    \E text \in Selections, r \in StageOutcomes(texts) :
        GatewayCall("get_stress_patterns", [text |-> text], <<r>>, <<>>,
                    IF client THEN 1 ELSE 0, get_stress_patterns(client, text, r))

\* POST /ai/brainstorm_vibes sent to the application of main.py: the path is
\* routed only when the router of api/ai.py is included
brainstorm_vibes ==
    /\ ops < MaxOps
    /\ \E prompt \in Prompts, r \in JsonOutcomes("c") :
         IF "ai" \in IncludedRouters
         THEN /\ gw' = [op |-> "generate_vibe_candidates", arg |-> [prompt |-> prompt],
                        answers |-> <<r>>, calls |-> <<>>,
                        requests |-> CandidateRequests(client),
                        ret |-> Returned(generate_vibe_candidates(client, r))]
              /\ Done("brainstorm_vibes", 0, 200)
         ELSE /\ gw' = gw
              /\ Done("brainstorm_vibes", 0, 404)
    /\ ops' = ops + 1
    /\ UNCHANGED <<store, client, texts, sess, req, pipe, delivered, yielded, calls, projVars>>

\* gateway calls, the /ai request and one streaming call, on one stored song
InitGateway ==
    /\ \E r \in ApiRows : store = [i \in SongIds |-> IF i = 1 THEN Some(r) ELSE None]
    /\ client \in BOOLEAN
    /\ texts = ApiTexts
    /\ ops = 0
    /\ last = [op |-> "init", id |-> 0, status |-> 0]
    /\ req = IdleReq
    /\ pipe = IdlePipe
    /\ delivered = <<>>
    /\ yielded = <<>>
    /\ calls = <<>>
    /\ sess = SessIdle
    /\ gw = GwIdle
    /\ features = None
    /\ runner = RunnerIdle
    /\ repo = EmptyRepo

Next ==
    \/ create_song
    \/ read_song_handler
    \/ refine_lyrics
    \/ update_song
    \/ delete_song
    \/ generate_vibe
    \/ stream_lyrics
    \/ generator_start
    \/ pipeline_begin
    \/ pipeline_anchors
    \/ pipeline_architect_marker
    \/ architect_outline
    \/ drafter_write
    \/ editor_refine
    \/ rhythmist_polish
    \/ sonic_polish
    \/ pipeline_word
    \/ pipeline_usage
    \/ generator_finish
    \/ client_disconnect

Spec == Init /\ [][Next]_vars

\* one streaming call on its own, with every text of the catalogue in use
InitStream ==
    /\ \E r \in StartRows : store = [i \in SongIds |-> IF i = 1 THEN Some(r) ELSE None]
    /\ client \in BOOLEAN
    /\ texts = Texts
    /\ ops = MaxOps - 1
    /\ last = [op |-> "init", id |-> 0, status |-> 0]
    /\ req = IdleReq
    /\ pipe = IdlePipe
    /\ delivered = <<>>
    /\ yielded = <<>>
    /\ calls = <<>>
    /\ sess = SessIdle
    /\ gw = GwIdle
    /\ features = None
    /\ runner = RunnerIdle
    /\ repo = EmptyRepo

NextStream ==
    \/ stream_lyrics
    \/ generator_start
    \/ pipeline_begin
    \/ pipeline_anchors
    \/ pipeline_architect_marker
    \/ architect_outline
    \/ drafter_write
    \/ editor_refine
    \/ rhythmist_polish
    \/ sonic_polish
    \/ pipeline_word
    \/ pipeline_usage
    \/ generator_finish
    \/ client_disconnect

SpecStream == InitStream /\ [][NextStream]_vars

NextGateway ==
    \/ call_generate_vibe_candidates
    \/ call_curate_vibe_anchors
    \/ call_get_vibe_cloud
    \/ call_rewrite_text
    \/ call_get_stress_patterns
    \/ brainstorm_vibes
    \/ NextStream

SpecGateway == InitGateway /\ [][NextGateway]_vars

TypeOK ==
    /\ ops \in 0..MaxOps
    /\ req.pc \in {"idle", "ready", "running", "done", "aborted"}
    /\ \A i \in SongIds : Exists(i) => Row(i).total_tokens \in Int

----------------------------------------------------------------------------
(* Streaming persistence *)

StreamDone == req.pc = "done"
StoredContent(id) == IF Exists(id) /\ Row(id).content.some THEN Row(id).content.val ELSE <<>>
HasLyrics(id) == "lyrics" \in DOMAIN StoredContent(id)
StoredLyrics(id) == StoredContent(id)["lyrics"]

NoUsageText(chunk) == ~Contains(chunk, USAGE_PREFIX)

AfterFinalMarker(text) == Strip(SplitLast(text, FINAL_MARKER))

C2_NoUsageDelivered ==
    \A i \in 1..Len(delivered) : ~Contains(delivered[i], USAGE_PREFIX)

\* the count the pipeline's trailing usage marker reports
UsageReported == IntValue(SplitColon1(From(UsageChunk, 3)))

\* C3: when a stream completes after the pipeline's trailing usage marker
\* reported n > 0 tokens, total_tokens is its value before the call plus n.
C3_TokensAdded ==
    [][(req.pc = "running" /\ req'.pc = "done" /\ UsageChunk \in {yielded[i] : i \in 1..Len(yielded)})
        => store'[req.song_id].val.total_tokens = Row(req.song_id).total_tokens + UsageReported]_vars

----------------------------------------------------------------------------
(* Vibe cloud and end of stream *)

\* generator() generated the vibe cloud of this stream itself
GeneratedCloud == "vibe_cloud" \in req.dirty

NotUsageChunk(chunk) == ~IsUsage(chunk)

----------------------------------------------------------------------------
(* The five stages *)

StageOrder ==
    <<"architect_outline", "drafter_write", "editor_refine",
      "rhythmist_polish", "sonic_polish">>

IsStageCall(c) == c.fn # "get_vibe_cloud"

\* the stage calls the pipeline has made, in the order it made them
StageCalls == SelectSeq(calls, IsStageCall)

\* the text a stage call was handed from the stage before it
StageInput(c) == IF c.fn = "drafter_write" THEN c.arg.outline ELSE c.arg.lyrics

\* C6: the stages are called in the order architect, drafter, editor,
\* rhythmist, sonic polisher, each at most once, each one after the first on
\* the text the stage before it returned, and the streamed lyrics are the
\* fifth stage's text; none is skipped once the final header is reached.
C6_StagesInOrder ==
    /\ Len(StageCalls) <= Len(StageOrder)
    /\ \A k \in 1..Len(StageCalls) : StageCalls[k].fn = StageOrder[k]
    /\ \A k \in 2..Len(StageCalls) :
          /\ StageCalls[k-1].ret.kind = "text"
          /\ StageInput(StageCalls[k]) = StageCalls[k-1].ret.val
    /\ (pipe.pc \in {"y_final", "y_word", "y_usage"} \/ (pipe.pc = "done" /\ client)) =>
          /\ Len(StageCalls) = Len(StageOrder)
          /\ pipe.final_lyrics = StageCalls[Len(StageOrder)].ret.val

\* C6 witness: a pipeline that ran to its end, every stage returning a text
\* other than the one it was handed.
C6_Witness ==
    /\ pipe.pc = "done"
    /\ Len(StageCalls) = Len(StageOrder)
    /\ \A k \in 2..Len(StageCalls) : StageCalls[k].ret.val # StageCalls[k-1].ret.val

\* the marker the pipeline yields before it calls a stage
StageMarker(fn) ==
    CASE fn = "architect_outline" -> ArchitectMsg
      [] fn = "drafter_write" -> DrafterMsg
      [] fn = "editor_refine" -> EditorMsg
      [] fn = "rhythmist_polish" -> RhythmistMsg
      [] fn = "sonic_polish" -> SonicMsg

\* the last call the pipeline made was a stage, and it raised
StageRaised ==
    /\ calls # <<>>
    /\ IsStageCall(calls[Len(calls)])
    /\ calls[Len(calls)].ret.kind = "raise"

\* C7: a stage that raises is not called again and no later stage is called;
\* the response aborts, the client having received exactly the fragments
\* yielded before the failing call, the last of them that stage's marker.
C7_StageFailurePropagates ==
    /\ \A k \in 1..Len(calls) :
          (IsStageCall(calls[k]) /\ calls[k].ret.kind = "raise") => k = Len(calls)
    /\ StageRaised =>
          /\ pipe.pc = "raised"
          /\ req.pc = "aborted"
          /\ delivered = yielded
          /\ Len(yielded) = 2 + Len(StageCalls)
          /\ yielded[Len(yielded)] = StageMarker(calls[Len(calls)].fn)

\* C7 witness: the third stage raised after two stages returned.
C7_Witness ==
    /\ StageRaised
    /\ Len(StageCalls) = 3
    /\ Len(delivered) = 5

\* C8: without a model client the pipeline yields the one fragment
\* "Error: No API Key", calls no stage and terminates.
C8_NoClientSingleError ==
    (~client /\ pipe.pc # "none") =>
        /\ pipe.pc \in {"new", "y_error", "done", "closed"}
        /\ calls = <<>>
        /\ (pipe.pc = "new") => (yielded = <<>>)
        /\ (pipe.pc # "new") => (yielded = <<ErrorMsg>>)

\* C8 witness: the pipeline of a service without client has terminated.
C8_Witness ==
    /\ ~client
    /\ pipe.pc = "done"
    /\ delivered = <<ErrorMsg>>

----------------------------------------------------------------------------
(* Token counter and length of the vibe cloud *)

\* C9 (as stated): the total_tokens of a song never decreases from one
\* committed state to the next.
C9_TokensNeverDecrease ==
    [][\A id \in SongIds :
          (store[id].some /\ store'[id].some) =>
              store'[id].val.total_tokens >= store[id].val.total_tokens]_vars

\* C9 (amended): total_tokens decreases only in a PUT, or in the final commit
\* of a stream whose loaded total_tokens is no longer the stored one.
C9_TokensDecreaseOnlyByOverwrite ==
    [][\A id \in SongIds :
          (/\ store[id].some
           /\ store'[id].some
           /\ store'[id].val.total_tokens < store[id].val.total_tokens) =>
              \/ last'.op = "update" /\ last'.id = id
              \/ /\ last'.op = "stream_next"
                 /\ req'.pc = "done"
                 /\ req.song_id = id
                 /\ req.song.total_tokens # store[id].val.total_tokens
                 /\ store'[id].val.total_tokens = req.song.total_tokens + req.final_tokens]_vars

\* C9 witness: a stream has added its usage to a total_tokens a PUT had set.
C9_Witness ==
    /\ StreamDone
    /\ last.op = "stream_next"
    /\ req.final_tokens > 0
    /\ req.song.total_tokens > req.final_tokens
    /\ Exists(req.song_id)
    /\ Row(req.song_id).total_tokens = req.song.total_tokens

\* C10 (as stated): a persisted vibe_cloud has at most 5 entries.
C10_CloudAtMostFive ==
    \A id \in SongIds :
        (Exists(id) /\ Row(id).vibe_cloud.some) => Len(Row(id).vibe_cloud.val) <= AnchorLimit

\* C10 (amended): a vibe_cloud written by generate_vibe or by the commit of a
\* stream has at most 5 entries.
C10_GeneratedCloudAtMostFive ==
    [][\A id \in SongIds :
          (/\ last'.op \in {"generate_vibe", "stream_next"}
           /\ store'[id].some
           /\ store'[id].val.vibe_cloud.some
           /\ (~store[id].some \/ store'[id].val.vibe_cloud # store[id].val.vibe_cloud)) =>
              Len(store'[id].val.vibe_cloud.val) <= AnchorLimit]_vars

\* C10 witness: generate_vibe has stored a vibe cloud of five anchors.
C10_Witness ==
    /\ last.op = "generate_vibe"
    /\ last.status = 200
    /\ Exists(last.id)
    /\ Row(last.id).vibe_cloud.some
    /\ Len(Row(last.id).vibe_cloud.val) = AnchorLimit

----------------------------------------------------------------------------
(* Requests for a song that does not exist *)

SongScoped == {"read", "update", "delete", "generate_vibe", "stream", "refine_lyrics"}

\* C12: a read, update, delete, generate_vibe, stream or refine_lyrics
\* request for an id without a row answers 404, changes no row and starts no
\* generator.
C12_MissingSongNotFound ==
    [][(ops' # ops /\ last'.op \in SongScoped /\ ~store[last'.id].some) =>
          /\ last'.status = 404
          /\ store' = store
          /\ UNCHANGED <<req, pipe, delivered, yielded, calls>>]_vars

\* C12 witness: generate_vibe has answered 404 for an id that has no row.
C12_Witness ==
    /\ last.op = "generate_vibe"
    /\ last.status = 404
    /\ ~Exists(last.id)
    /\ \A id \in SongIds : ~Exists(id)

----------------------------------------------------------------------------
(* Sessions *)

\* C11: a request that met "database is locked" is run again with a new
\* session after each pause, for at most 3 attempts; the lock error reaches
\* the caller only after the third attempt, any other error after the first.
C11_LockedRequestRetried ==
    sess.pc = "finished" =>
        /\ sess.opened <= Retries
        /\ sess.slept = sess.opened - 1
        /\ sess.runs = sess.opened
        /\ sess.outcome \in {"ok", LockError, "disk I/O error", "IntegrityError", "HTTPException"}
        /\ (sess.outcome = LockError) => (sess.runs = Retries)

----------------------------------------------------------------------------
(* The vibe cloud gateway *)

\* the first entries of a list, in their order, five at most
FirstFive(l) == [i \in 1..Min({AnchorLimit, Len(l)}) |-> l[i]]

\* C13: curate_vibe_anchors on an empty candidate list returns the empty list
\* and sends nothing to the service; on a non-empty list whose service call
\* raises or answers malformed JSON it returns the first 5 candidates (all
\* when fewer) in their order, and never raises.
C13_CurateFallsBack ==
    (gw.op = "curate_vibe_anchors") =>
        /\ gw.ret.kind = "value"
        /\ (gw.arg.candidates = <<>>) => (gw.ret.val = <<>> /\ gw.requests = 0)
        /\ (gw.arg.candidates # <<>> /\ gw.answers[1].kind = "raise") =>
              gw.ret.val = FirstFive(gw.arg.candidates)

\* C13 witness: the service call failed for a list of more than 5 candidates.
C13_Witness ==
    /\ gw.op = "curate_vibe_anchors"
    /\ client
    /\ gw.requests = 1
    /\ gw.answers[1].kind = "raise"
    /\ Len(gw.arg.candidates) > AnchorLimit
    /\ Len(gw.ret.val) = AnchorLimit

\* C14: with a client, get_vibe_cloud(prompt) calls generate_vibe_candidates
\* once with the prompt, then curate_vibe_anchors once with the prompt and the
\* candidates returned, and returns what curation returned; a failed
\* brainstorm gives no candidates and the result is the empty list.
C14_GenerateThenCurate ==
    (gw.op = "get_vibe_cloud" /\ client) =>
        /\ Len(gw.calls) = 2
        /\ gw.calls[1].fn = "generate_vibe_candidates"
        /\ gw.calls[1].arg = [prompt |-> gw.arg.prompt]
        /\ gw.calls[2].fn = "curate_vibe_anchors"
        /\ gw.calls[2].arg = [prompt |-> gw.arg.prompt, candidates |-> gw.calls[1].ret]
        /\ gw.ret = Returned(gw.calls[2].ret)
        /\ (gw.answers[1].kind # "list") =>
              (gw.calls[1].ret = <<>> /\ gw.ret = Returned(<<>>))

\* C14 witness: brainstorm gave more than 5 candidates and curation chose 2.
C14_Witness ==
    /\ gw.op = "get_vibe_cloud"
    /\ client
    /\ Len(gw.calls) = 2
    /\ Len(gw.calls[1].ret) > AnchorLimit
    /\ Len(gw.ret.val) = 2
    /\ gw.ret.val # FirstFive(gw.calls[1].ret)

GatewayOps ==
    {"get_vibe_cloud", "generate_vibe_candidates", "rewrite_text", "get_stress_patterns"}

\* C18 (as stated): without an API key every gateway operation attempted
\* fails: the four methods raise and the lyrics pipeline does not end normally.
C18_NoClientAlwaysFails ==
    ~client =>
        /\ (gw.op \in GatewayOps) => (gw.ret.kind = "raise")
        /\ pipe.pc # "done"

\* C18 (amended): without an API key only get_vibe_cloud raises;
\* generate_vibe_candidates returns the empty list, rewrite_text and
\* get_stress_patterns return the text they were given, lyrics_factory_stream
\* yields the text "Error: No API Key" and ends normally; none of them sends
\* a request.
C18_NoClientFallbacks ==
    ~client =>
        /\ (gw.op # "none") => (gw.requests = 0)
        /\ (gw.op = "get_vibe_cloud") => (gw.ret.kind = "raise")
        /\ (gw.op = "generate_vibe_candidates") => (gw.ret = Returned(<<>>))
        /\ (gw.op = "rewrite_text") => (gw.ret = Returned(gw.arg.selection))
        /\ (gw.op = "get_stress_patterns") => (gw.ret = Returned(gw.arg.text))
        /\ pipe.pc # "raised"
        /\ (pipe.pc = "done") => (yielded = <<ErrorMsg>>)

\* C18 witness: rewrite_text has returned the selection, no client configured.
C18_Witness ==
    /\ ~client
    /\ gw.op = "rewrite_text"
    /\ gw.ret.kind = "value"
    /\ pipe.pc = "done"

\* C19: POST /ai/brainstorm_vibes answers 200 with the list
\* generate_vibe_candidates returned for the prompt.
C19_BrainstormAnswers ==
    (last.op = "brainstorm_vibes") =>
        /\ last.status = 200
        /\ gw.op = "generate_vibe_candidates"
        /\ gw.ret.kind = "value"

----------------------------------------------------------------------------
(* What the handlers write *)

\* the streaming call loaded a song without a usable vibe cloud
HadNoCloud == calls # <<>> /\ calls[1].fn = "get_vibe_cloud"

Sent(row, f) == IF f \in NotNullColumns THEN Some(row[f]) ELSE row[f]

\* C17: PUT /songs/{id} on an existing song answers 200, sets every field of
\* the body to the value sent, and leaves the other fields and the other
\* songs unchanged.
C17_PutSetsSentFields ==
    [][(ops' # ops /\ last'.op = "update" /\ store[last'.id].some) =>
          /\ last'.status = 200
          /\ store'[last'.id].some
          /\ \E body \in UpdateBodies :
                \A f \in DOMAIN store[last'.id].val :
                    IF f \in DOMAIN body
                    THEN Sent(store'[last'.id].val, f) = body[f]
                    ELSE store'[last'.id].val[f] = store[last'.id].val[f]
          /\ \A j \in SongIds \ {last'.id} : store'[j] = store[j]]_vars

\* the stored song is the song the streaming call loaded
StoredAsLoaded ==
    /\ Exists(req.song_id)
    /\ Row(req.song_id).title = req.song.title
    /\ Row(req.song_id).content = req.song.content
    /\ Row(req.song_id).total_tokens = req.song.total_tokens
    /\ IF GeneratedCloud
       THEN ~Truthy(Row(req.song_id).vibe_cloud)
       ELSE Row(req.song_id).vibe_cloud = req.song.vibe_cloud

\* C20: a streaming call ended by a raising vibe-cloud or stage call, or by
\* the client going away, has committed nothing: the stored vibe_cloud,
\* content and total_tokens are those the call loaded.
C20_IncompleteStreamCommitsNothing ==
    (req.pc = "aborted") => StoredAsLoaded

\* C20 witness: the client went away after the vibe cloud was generated and
\* fragments were delivered.
C20_Witness ==
    /\ req.pc = "aborted"
    /\ pipe.pc = "closed"
    /\ GeneratedCloud
    /\ Len(delivered) >= 8

----------------------------------------------------------------------------
(* What a stream stores as lyrics *)

\* the text the fifth stage returned, when it was called and returned one
FinalStageText ==
    IF Len(StageCalls) = Len(StageOrder) /\ StageCalls[Len(StageOrder)].ret.kind = "text"
    THEN Some(StageCalls[Len(StageOrder)].ret.val)
    ELSE None

\* C21: a step of a streaming call leaves content.lyrics of every song as it
\* was, or stores lyrics of a pipeline run whose final stage produced a text;
\* the marker "Error: No API Key" is never stored as lyrics.
C21_ErrorMarkerNeverStored ==
    [][(last'.op \in {"stream", "stream_next", "disconnect"}) =>
          \A id \in SongIds :
              (store'[id].some /\ store'[id].val.content.some
                 /\ "lyrics" \in DOMAIN store'[id].val.content.val) =>
                  LET new == store'[id].val.content.val["lyrics"]
                  IN  \/ HasLyrics(id) /\ new = StoredLyrics(id)
                      \/ /\ FinalStageText.some
                         /\ new # ErrorMsg]_vars

\* the get_vibe_cloud calls of the current stream, the handler's and the
\* pipeline's together
VibeCalls == SelectSeq(calls, LAMBDA c : c.fn = "get_vibe_cloud")

\* C22: a streaming call for a song without vibe cloud invokes get_vibe_cloud
\* exactly once, with the resolved seed, and the vibe_cloud it persists is the
\* anchors the pipeline used for the stages, the empty list included.
C22_VibeCloudGeneratedOnce ==
    HadNoCloud =>
        /\ Len(VibeCalls) = 1
        /\ VibeCalls[1].arg = [prompt |-> req.seed_text]
        /\ StreamDone =>
              /\ Exists(req.song_id)
              /\ Row(req.song_id).vibe_cloud = pipe.anchors

----------------------------------------------------------------------------
(* Overlapping requests on one song *)

\* C23: when the commit that ends a streaming call follows the commits of
\* requests that overlapped it, nothing committed is lost: every content key
\* the store held is still there, the keys the stream does not write keep
\* their values, and total_tokens is the stored value plus the usage reported.
C23_NoLostUpdate ==
    [][(req.pc = "running" /\ req'.pc = "done") =>
          LET old == store[req.song_id].val
              new == store'[req.song_id].val
          IN  /\ new.content.some
              /\ DOMAIN ContentDict(old) \subseteq DOMAIN new.content.val
              /\ \A k \in DOMAIN ContentDict(old) \ {"lyrics", "seed_prompt"} :
                    new.content.val[k] = ContentDict(old)[k]
              /\ new.total_tokens = old.total_tokens + req.final_tokens]_vars

----------------------------------------------------------------------------
(* The seed of a stream *)

----------------------------------------------------------------------------
(* TDD orchestration: features.json and the functions that read it
   (.codex/skills/tdd-orchestrator, .gemini/skills/tdd-initializer) *)

\* most features of a features.json
MaxFeatures == 2

FeatureIds == {"F1", "F2"}
\* an id that no feature of the file has
UnknownId == "F9"
Statuses == {"pending", "in_progress", "complete", "failed"}

Feature(id, status, deps) ==
    [id |-> id, status |-> status, dependencies |-> deps, retry_count |-> 0,
     commit_hash |-> 0]

\* dependency lists a feature may carry
DependencyLists ==
    {<<>>, <<"F1">>, <<"F2">>, <<UnknownId>>, <<"F2", UnknownId>>, <<"F1", "F2">>}

\* the lists an initializer agent may write under "features": nothing in the
\* orchestration scripts keeps two features from carrying the same id
FeatureFiles ==
    UNION {[1..n -> {Feature(id, s, d) : id \in FeatureIds, s \in Statuses,
                                         d \in DependencyLists}] : n \in 0..MaxFeatures}

Ids(fs) == {fs[i].id : i \in 1..Len(fs)}
Deps(f) == {f.dependencies[k] : k \in 1..Len(f.dependencies)}

\* the first feature of the list with the id: 0 when there is none
FirstWithId(fs, feature_id) ==
    IF feature_id \in Ids(fs) THEN Min({i \in 1..Len(fs) : fs[i].id = feature_id}) ELSE 0

\* _get_next_feature giving up at the first pending feature that is not ready
_get_next_feature_FirstPending(file) ==
    IF ~file.some \/ \A i \in 1..Len(file.val) : file.val[i].status # "pending" THEN 0
    ELSE LET fs == file.val
             i == Min({j \in 1..Len(fs) : fs[j].status = "pending"})
             completed_ids == {fs[j].id : j \in {k \in 1..Len(fs) : fs[k].status = "complete"}}
         IN  IF Deps(fs[i]) \subseteq completed_ids THEN i ELSE 0

\* TDDAutoRunner._get_next_feature: the position of the feature returned, 0
\* for None
_get_next_feature(file) ==
    IF ~file.some THEN 0
    ELSE LET fs == file.val
             completed_ids == {fs[i].id : i \in {j \in 1..Len(fs) : fs[j].status = "complete"}}
             ready == {i \in 1..Len(fs) :
                          fs[i].status = "pending" /\ Deps(fs[i]) \subseteq completed_ids}
         IN  IF ready = {} THEN 0 ELSE Min(ready)

\* TDDOrchestrator._is_feature_complete: the status of the first match
_is_feature_complete(feature_id, fs) ==
    FirstWithId(fs, feature_id) # 0 /\ fs[FirstWithId(fs, feature_id)].status = "complete"

\* TDDOrchestrator.get_next_feature: the position of the feature returned
get_next_feature(file) ==
    IF ~file.some THEN 0
    ELSE LET fs == file.val
             ready == {i \in 1..Len(fs) :
                          /\ fs[i].status = "pending"
                          /\ \A k \in 1..Len(fs[i].dependencies) :
                                _is_feature_complete(fs[i].dependencies[k], fs)}
         IN  IF ready = {} THEN 0 ELSE Min(ready)

\* feature_map = {f["id"]: f for f in features}: the last feature of an id
feature_map(fs, node_id) ==
    IF node_id \in Ids(fs)
    THEN Some(fs[Max({i \in 1..Len(fs) : fs[i].id = node_id})])
    ELSE None

\* dfs with the two membership tests in the other order
RECURSIVE dfs(_, _, _, _)
RECURSIVE dfs_dependencies(_, _, _, _, _)
dfs_VisitedFirst(fs, node_id, path, st) ==
    IF node_id \in st.visited THEN st
    ELSE IF node_id \in st.rec_stack
    THEN [st EXCEPT !.result =
             From(path, Min({k \in 1..Len(path) : path[k] = node_id})) \o <<node_id>>]
    ELSE LET entered == [st EXCEPT !.visited = @ \cup {node_id},
                                   !.rec_stack = @ \cup {node_id}]
             feature == feature_map(fs, node_id)
             after == IF feature.some
                      THEN dfs_dependencies(fs, feature.val.dependencies, 1,
                                            path \o <<node_id>>, entered)
                      ELSE entered
         IN  IF after.result # <<>> THEN after
             ELSE [after EXCEPT !.rec_stack = @ \ {node_id}]

\* check_circular_dependencies.dfs: visited and rec_stack are shared by all
\* calls, result is <<>> for None and else the cycle path
dfs(fs, node_id, path, st) ==
    IF node_id \in st.rec_stack
    THEN [st EXCEPT !.result =
             From(path, Min({k \in 1..Len(path) : path[k] = node_id})) \o <<node_id>>]
    ELSE IF node_id \in st.visited THEN st
    ELSE LET entered == [st EXCEPT !.visited = @ \cup {node_id},
                                   !.rec_stack = @ \cup {node_id}]
             feature == feature_map(fs, node_id)
             after == IF feature.some
                      THEN dfs_dependencies(fs, feature.val.dependencies, 1,
                                            path \o <<node_id>>, entered)
                      ELSE entered
         IN  IF after.result # <<>> THEN after
             ELSE [after EXCEPT !.rec_stack = @ \ {node_id}]

\* for dep in feature.get("dependencies", []): the first result that is a path
dfs_dependencies(fs, deps, k, path, st) ==
    IF k > Len(deps) THEN st
    ELSE LET r == dfs(fs, deps[k], path, st)
         IN  IF r.result # <<>> THEN r ELSE dfs_dependencies(fs, deps, k + 1, path, r)

\* for feature in features: result = dfs(feature["id"], [])
RECURSIVE check_from(_, _, _)
check_from(fs, i, st) ==
    IF i > Len(fs) THEN <<>>
    ELSE LET r == dfs(fs, fs[i].id, <<>>, st)
         IN  IF r.result # <<>> THEN r.result ELSE check_from(fs, i + 1, r)

check_circular_dependencies(fs) ==
    check_from(fs, 1, [visited |-> {}, rec_stack |-> {}, result |-> <<>>])

\* the errors validate_features reports for a file of well-formed features
ValidationErrors(file) ==
    IF ~file.some THEN {"file_not_found"}
    ELSE IF Len(file.val) = 0 THEN {"no_features"}
    ELSE LET fs == file.val
         IN  (IF \E i, j \in 1..Len(fs) : i < j /\ fs[i].id = fs[j].id
              THEN {"duplicate_id"} ELSE {})
             \cup (IF \E i \in 1..Len(fs) : ~(Deps(fs[i]) \subseteq Ids(fs))
                   THEN {"unknown_dependency"} ELSE {})
             \cup (IF check_circular_dependencies(fs) # <<>> THEN {"circular"} ELSE {})

\* update_feature_status: the status of the first feature with the id is set,
\* its other fields are kept; a list without the id is written back unchanged
update_feature_status(fs, feature_id, status) ==
    IF FirstWithId(fs, feature_id) = 0 THEN fs
    ELSE [fs EXCEPT ![FirstWithId(fs, feature_id)].status = status]

\* safety limit of TDDAutoRunner.run and the retries a feature is given
max_iterations == 50
max_retries_per_feature == 3

\* the retry logic of run: the first feature with the id gets one more
\* retry_count and status failed once the count reaches the maximum
retry(fs, feature_id) ==
    IF FirstWithId(fs, feature_id) = 0 THEN fs
    ELSE LET i == FirstWithId(fs, feature_id)
             retry_count == fs[i].retry_count + 1
         IN  [fs EXCEPT ![i].retry_count = retry_count,
                        ![i].status = IF retry_count >= max_retries_per_feature
                                      THEN "failed" ELSE @]

\* features.json files with a repeated id that the runner is started on
DuplicateFiles ==
    {<<Feature("F1", "pending", <<>>), Feature("F1", "pending", <<>>)>>,
     <<Feature("F1", "complete", <<>>), Feature("F1", "pending", <<>>)>>,
     <<Feature("F1", "pending", <<"F1">>), Feature("F1", "complete", <<>>)>>}

\* features.json files the runner and the committer are started on
RunnerFiles ==
    {fs \in FeatureFiles : \A i, j \in 1..Len(fs) : fs[i].id = fs[j].id => i = j}
    \cup DuplicateFiles

\* what an agent run leaves in features.json: nothing, or one call of
\* update_feature_status.py for the feature it was started for
AgentWrites(fs, feature_id) ==
    {fs} \cup {update_feature_status(fs, feature_id, s) : s \in Statuses}

\* run, up to the loop: without features.json the runner returns at once
run_start ==
    /\ runner.pc = "idle"
    /\ runner' = IF ~features.some
                 THEN [RunnerIdle EXCEPT !.pc = "finished", !.outcome = "no_features_file"]
                 ELSE [RunnerIdle EXCEPT !.pc = "loop",
                                         !.attempts = [i \in 1..Len(features.val) |-> 0],
                                         !.commits = [i \in 1..Len(features.val) |-> 0]]
    /\ UNCHANGED <<songVars, features, repo>>

\* run, one test of the loop condition and the selection of a feature
run_next ==
    /\ runner.pc = "loop"
    /\ LET feature == _get_next_feature(features)
           fs == features.val
           completed == Cardinality({i \in 1..Len(fs) : fs[i].status = "complete"})
       IN  runner' =
             IF runner.iteration >= max_iterations
             THEN [runner EXCEPT !.pc = "finished", !.outcome = "limit"]
             ELSE IF feature = 0
             THEN [runner EXCEPT !.pc = "finished", !.iteration = @ + 1, !.feature = 0,
                                 !.outcome = IF completed = Len(fs)
                                             THEN "all_complete" ELSE "stuck"]
             ELSE [runner EXCEPT !.pc = "implementing", !.iteration = @ + 1,
                                 !.feature = feature]
    /\ UNCHANGED <<songVars, features, repo>>

\* implement_feature giving its verdict without looking at features.json
implement_feature_success_AnyRun(fs, feature_id) == TRUE

\* implement_feature, its return value: some feature with the id is complete
implement_feature_success(fs, feature_id) ==
    \E i \in 1..Len(fs) : fs[i].id = feature_id /\ fs[i].status = "complete"

\* implement_feature: the feature agent runs, then features.json is read again
implement_feature ==
    /\ runner.pc = "implementing"
    /\ LET feature_id == features.val[runner.feature].id
       IN  \E written \in AgentWrites(features.val, feature_id) :
              /\ features' = Some(written)
              /\ runner' = [runner EXCEPT
                    !.attempts[runner.feature] = @ + 1,
                    !.success = implement_feature_success(written, feature_id),
                    !.pc = IF implement_feature_success(written, feature_id)
                           THEN "committing" ELSE "retrying"]
    /\ UNCHANGED <<songVars, repo>>

\* commit_feature: the committer agent runs, its result is not looked at
commit_feature ==
    /\ runner.pc = "committing"
    /\ LET feature_id == features.val[runner.feature].id
       IN  \E written \in {features.val,
                           update_feature_status(features.val, feature_id, "complete")} :
              features' = Some(written)
    /\ runner' = [runner EXCEPT !.commits[runner.feature] = @ + 1, !.pc = "loop"]
    /\ UNCHANGED <<songVars, repo>>

\* run, the branch of an attempt without success
handle_retry ==
    /\ runner.pc = "retrying"
    /\ features' = Some(retry(features.val, features.val[runner.feature].id))
    /\ runner' = [runner EXCEPT !.pc = "loop"]
    /\ UNCHANGED <<songVars, repo>>


\* main of verify_and_commit.py marking the feature complete in a dry run too
main_DryRunWrites(file, rp, a) ==
    IF ~file.some \/ FirstWithId(file.val, a.feature_id) = 0
    THEN [features |-> file, repo |-> rp, exit |-> 1]
    ELSE IF ~a.skip_tests /\ ~a.tests_ok
    THEN [features |-> file, repo |-> rp, exit |-> 1]
    ELSE IF ~a.staged \/ a.dry_run
    THEN [features |-> Some(update_feature_status(file.val, a.feature_id, "complete")),
          repo |-> rp, exit |-> 0]
    ELSE IF ~a.commit_ok
    THEN [features |-> file, repo |-> rp, exit |-> 1]
    ELSE LET i == FirstWithId(file.val, a.feature_id)
             commit_hash == Len(rp.commits) + 1
         IN  [features |-> Some([file.val EXCEPT ![i].status = "complete",
                                                 ![i].commit_hash = commit_hash]),
              repo |-> [commits |-> Append(rp.commits, a.feature_id),
                        progress |-> IF rp.progress.some
                                     THEN Some(Append(rp.progress.val,
                                                      <<a.feature_id, commit_hash>>))
                                     ELSE rp.progress],
              exit |-> 0]

\* main of verify_and_commit.py: features.json, the repository and the exit
\* code it leaves; a commit hash is the number of the commit
main(file, rp, a) ==
    IF ~file.some \/ FirstWithId(file.val, a.feature_id) = 0
    THEN [features |-> file, repo |-> rp, exit |-> 1]
    ELSE IF ~a.skip_tests /\ ~a.tests_ok
    THEN [features |-> file, repo |-> rp, exit |-> 1]
    ELSE IF ~a.staged
    THEN [features |-> IF ~a.dry_run
                       THEN Some(update_feature_status(file.val, a.feature_id, "complete"))
                       ELSE file,
          repo |-> rp, exit |-> 0]
    ELSE IF a.dry_run
    THEN [features |-> file, repo |-> rp, exit |-> 0]
    ELSE IF ~a.commit_ok
    THEN [features |-> file, repo |-> rp, exit |-> 1]
    ELSE LET i == FirstWithId(file.val, a.feature_id)
             commit_hash == Len(rp.commits) + 1
         IN  [features |-> Some([file.val EXCEPT ![i].status = "complete",
                                                 ![i].commit_hash = commit_hash]),
              repo |-> [commits |-> Append(rp.commits, a.feature_id),
                        progress |-> IF rp.progress.some
                                     THEN Some(Append(rp.progress.val,
                                                      <<a.feature_id, commit_hash>>))
                                     ELSE rp.progress],
              exit |-> 0]

\* one run of verify_and_commit.py: its arguments, and what the test command,
\* git add and git commit answer
verify_and_commit ==
    /\ runner.pc = "idle"
    /\ \E a \in [feature_id : FeatureIds \cup {UnknownId}, skip_tests : BOOLEAN,
                 dry_run : BOOLEAN, tests_ok : BOOLEAN, staged : BOOLEAN,
                 commit_ok : BOOLEAN] :
          /\ features' = main(features, repo, a).features
          /\ repo' = main(features, repo, a).repo
          /\ runner' = [RunnerIdle EXCEPT !.pc = "exited", !.args = a,
                           !.outcome = IF main(features, repo, a).exit = 0
                                       THEN "exit_0" ELSE "exit_1"]
    /\ UNCHANGED songVars

\* one run of validate_features.py
validate_features ==
    /\ runner.pc = "idle"
    /\ runner' = [RunnerIdle EXCEPT
          !.pc = "validated",
          !.result = IF features.some /\ Len(features.val) > 0
                     THEN check_circular_dependencies(features.val) ELSE <<>>,
          !.errors = ValidationErrors(features),
          !.outcome = IF ValidationErrors(features) = {} THEN "valid" ELSE "invalid"]
    /\ UNCHANGED <<songVars, features, repo>>

\* TDDOrchestrator.resume: the prompt for the next feature, or a status line
resume ==
    /\ runner.pc = "idle"
    /\ LET next_feature == get_next_feature(features)
           complete == {i \in 1..Len(features.val) : features.val[i].status = "complete"}
       IN  runner' = [RunnerIdle EXCEPT
              !.pc = "resumed",
              !.feature = next_feature,
              !.outcome = IF next_feature # 0 THEN "prompt"
                          ELSE IF ~features.some THEN "not_initialized"
                          ELSE IF Cardinality(complete) = Len(features.val) THEN "complete"
                          ELSE "no_actionable_features"]
    /\ UNCHANGED <<songVars, features, repo>>

\* no song stored and no request in flight: the state of the song service
\* while the orchestration scripts run
SongsAtRest ==
    /\ store = [i \in SongIds |-> None]
    /\ client = FALSE
    /\ texts = ApiTexts
    /\ ops = 0
    /\ last = [op |-> "init", id |-> 0, status |-> 0]
    /\ req = IdleReq
    /\ pipe = IdlePipe
    /\ delivered = <<>>
    /\ yielded = <<>>
    /\ calls = <<>>
    /\ sess = SessIdle
    /\ gw = GwIdle

\* the auto-runner started in a project whose features.json is any runner file
InitRunner ==
    /\ SongsAtRest
    /\ features \in {None} \cup {Some(fs) : fs \in RunnerFiles}
    /\ runner = RunnerIdle
    /\ repo = EmptyRepo

NextRunner ==
    \/ run_start
    \/ run_next
    \/ implement_feature
    \/ commit_feature
    \/ handle_retry

\* run awaits each agent without a timeout: the runner takes its next step
\* whenever the agent it waits for has ended
SpecRunner == InitRunner /\ [][NextRunner]_vars /\ WF_vars(NextRunner)

\* one script reading any features.json
InitFeatures ==
    /\ SongsAtRest
    /\ features \in {None} \cup {Some(fs) : fs \in FeatureFiles}
    /\ runner = RunnerIdle
    /\ repo = EmptyRepo

NextFeatures ==
    \/ validate_features
    \/ resume
    \/ run_start
    \/ run_next

SpecFeatures == InitFeatures /\ [][NextFeatures]_vars

\* the committer script run once, with or without a progress.txt
InitCommit ==
    /\ SongsAtRest
    /\ features \in {None} \cup {Some(fs) : fs \in RunnerFiles}
    /\ runner = RunnerIdle
    /\ repo \in {EmptyRepo, [EmptyRepo EXCEPT !.progress = None]}

NextCommit == verify_and_commit

SpecCommit == InitCommit /\ [][NextCommit]_vars

----------------------------------------------------------------------------
(* The retry bound of the auto-runner *)

\* C25: an attempt that does not leave the feature complete adds one to that
\* feature's retry_count and marks it failed exactly when the count reaches
\* max_retries_per_feature; a failed feature is not attempted again, and no
\* feature is attempted more than max_retries_per_feature times in one run
C25_RetryBound ==
    /\ [][(runner.pc = "retrying" /\ runner'.pc = "loop") =>
             LET f == features.val[runner.feature]
                 g == features'.val[runner.feature]
             IN  /\ g.retry_count = f.retry_count + 1
                 /\ (g.status = "failed") <=>
                       (f.status = "failed" \/ g.retry_count = max_retries_per_feature)]_vars
    /\ [][runner'.pc = "implementing" =>
             features.val[runner'.feature].status # "failed"]_vars
    /\ [](\A i \in 1..Len(runner.attempts) : runner.attempts[i] <= max_retries_per_feature)

----------------------------------------------------------------------------
(* The feature selected next *)

\* C26: the feature that the auto-runner and the orchestrator select is the
\* first feature in file order with status pending all of whose dependencies
\* have status complete (a dependency on an id that no feature has, or on a
\* feature of another status, keeps a feature from being selected), and both
\* select the same feature for the same features.json
C26_SameNextFeature ==
    features.some =>
        LET fs == features.val
            ready == {i \in 1..Len(fs) :
                         /\ fs[i].status = "pending"
                         /\ \A dep \in Deps(fs[i]) :
                               /\ dep \in Ids(fs)
                               /\ \A j \in 1..Len(fs) :
                                     fs[j].id = dep => fs[j].status = "complete"}
            first == IF ready = {} THEN 0 ELSE Min(ready)
        IN  /\ runner.pc = "implementing" => runner.feature = first
            /\ (runner.pc = "finished" /\ runner.iteration = 1) => first = 0
            /\ runner.pc = "resumed" => runner.feature = first
            /\ runner.pc \in {"implementing", "finished", "resumed"} =>
                  _get_next_feature(features) = get_next_feature(features)

----------------------------------------------------------------------------
(* Termination of the auto-runner *)

\* pending features all of whose dependencies are ids of complete features
ReadyFeatures(fs) ==
    {i \in 1..Len(fs) :
        /\ fs[i].status = "pending"
        /\ \A dep \in Deps(fs[i]) :
              \E j \in 1..Len(fs) : fs[j].id = dep /\ fs[j].status = "complete"}

RECURSIVE Sum(_)
Sum(s) == IF s = <<>> THEN 0 ELSE Head(s) + Sum(Tail(s))

----------------------------------------------------------------------------
(* The order implement, then commit *)

----------------------------------------------------------------------------
(* The committer script *)

\* C29: verify_and_commit makes no commit and does not mark the feature
\* complete when the tests fail, unless --skip-tests is given; it marks the
\* feature complete only after the tests passed (or were skipped by that
\* flag) and the commit succeeded or nothing was staged; with --dry-run it
\* makes no commit and changes neither features.json nor progress.txt
C29_CommitOnlyVerified ==
    [][runner'.pc = "exited" =>
          LET a == runner'.args
              verified == a.skip_tests \/ a.tests_ok
              committed == Len(repo'.commits) = Len(repo.commits) + 1
          IN  /\ ~verified => (features' = features /\ repo' = repo)
              /\ features' # features =>
                    /\ verified
                    /\ committed \/ ~a.staged
                    /\ features'.val = update_feature_status(features.val, a.feature_id, "complete")
                          \/ (committed /\ \E h \in 1..Len(repo'.commits) :
                                features'.val =
                                  [features.val EXCEPT
                                     ![FirstWithId(features.val, a.feature_id)].status = "complete",
                                     ![FirstWithId(features.val, a.feature_id)].commit_hash = h])
              /\ committed => (verified /\ a.staged /\ a.commit_ok /\ ~a.dry_run)
              /\ ~committed => repo' = repo
              /\ a.dry_run => (features' = features /\ repo' = repo)
      ]_vars

\* a run with passing tests and staged files committed and marked its pending
\* feature complete
C29_Witness ==
    /\ runner.pc = "exited"
    /\ runner.outcome = "exit_0"
    /\ runner.args.tests_ok /\ ~runner.args.skip_tests /\ ~runner.args.dry_run
    /\ repo.commits = <<runner.args.feature_id>>
    /\ features.val[FirstWithId(features.val, runner.args.feature_id)].status = "complete"
    /\ features.val[FirstWithId(features.val, runner.args.feature_id)].commit_hash = 1

----------------------------------------------------------------------------
(* Circular dependencies *)

\* the pairs <<a, b>> with a walk of one to n edges from a to b
RECURSIVE Paths(_, _)
Paths(edges, n) ==
    IF n <= 1 THEN edges
    ELSE LET shorter == Paths(edges, n - 1)
         IN  shorter \cup {<<z[1][1], z[2][2]>> :
                              z \in {w \in shorter \X edges : w[1][2] = w[2][1]}}

\* some id reaches itself along the edges
HasCycle(edges) == \E e \in Paths(edges, Cardinality(edges)) : e[1] = e[2]

\* the dependencies of every feature, as edges from its id
EdgesOfAll(fs) ==
    UNION {{<<fs[i].id, dep>> : dep \in Deps(fs[i])} : i \in 1..Len(fs)}

\* the dependencies of the last feature listed with each id
EdgesOfLast(fs) ==
    UNION {{<<id, dep>> : dep \in Deps(feature_map(fs, id).val)} : id \in Ids(fs)}

\* path starts and ends with the same id and each element has the next one
\* among its dependencies
IsCycle(path, edges) ==
    /\ Len(path) >= 2
    /\ path[1] = path[Len(path)]
    /\ \A k \in 1..(Len(path) - 1) : <<path[k], path[k + 1]>> \in edges

====
